---------------------------- MODULE Spec2Model ----------------------------
(***************************************************************************)
(* Model of vrGrasp-prediction:                                            *)
(*   preprocessing.py      extract_config_segments, process_all_users      *)
(*   featureExtraction.py  extract_grasp_aperture,                         *)
(*                         extract_grasp_polygons_over_time                *)
(*                                                                         *)
(* Time is counted in ticks of half a second, so that the default          *)
(* time_buffer of 0.5 s is one tick and every comparison is exact.         *)
(* Positions are integer triples.  np.linalg.norm is modelled by the       *)
(* exact sum of squares under its square root (NormSq): the Euclidean      *)
(* distance is the square root of that number.                             *)
(***************************************************************************)
EXTENDS Integers, Sequences, FiniteSets

(***************************************************************************)
(* Bounds of the model.                                                    *)
(***************************************************************************)
MaxTime == 2
MaxLen == 3
MaxRows == 2
MaxBatchRows == 1
MaxBuffer == 1
MaxFiles == 2
MaxBlocks == 2
MaxStamp == 1

(***************************************************************************)
(* Program constants.                                                      *)
(***************************************************************************)
\* time_buffer: float = 0.5, in half-second ticks
DefaultTimeBuffer == 1
\* for i in range(13)
NumUsers == 13
\* if i == 1: continue
InvalidUser == 1

VARIABLES
    \* ---- preprocessing.py ----
    i,              \* process_all_users: loop index over range(13)
    user_folder,    \* the folder handed to extract_config_segments
    time_buffer,    \* extract_config_segments' time_buffer argument
    config_rows,    \* event_df filtered to the config rows
    k,              \* number of config rows iterated so far
    transform_df,   \* the transform log read in the current iteration
    saved,          \* files written by to_csv in this call: name -> rows
    stdout,         \* lines printed since the current call began
    pc,             \* position in the program
    exc,            \* the exception that reached the caller, or "none"
    \* ---- featureExtraction.py ----
    df,             \* the cropped stream handed to the extractors
    df0,            \* history: the stream as it was handed over
    aperture_out,   \* what the last extract_grasp_aperture call returned
    aperture_args,  \* the arguments of that call
    polygons_out    \* what the last extract_grasp_polygons_over_time returned

segVars == <<i, user_folder, time_buffer, config_rows, k, transform_df,
             saved, stdout, pc, exc>>
featVars == <<df, df0, aperture_out, aperture_args, polygons_out>>
vars == <<i, user_folder, time_buffer, config_rows, k, transform_df,
          saved, stdout, pc, exc,
          df, df0, aperture_out, aperture_args, polygons_out>>

None == "None"

\* what a call returned: a table, or the exception it raised
Table(rows) == [status |-> "ok", rows |-> rows]
Raised(e) == [status |-> e, rows |-> <<>>]
NoCall == [status |-> "nocall", rows |-> <<>>]
NoArgs == [df |-> <<>>, joint1 |-> "None", joint2 |-> "None"]

(***************************************************************************)
(* Sequence helpers.                                                       *)
(***************************************************************************)
SeqsUpTo(S, n) == UNION {[1..m -> S] : m \in 0..n}

RECURSIVE SumSeq(_)
SumSeq(s) == IF s = <<>> THEN 0 ELSE Head(s) + SumSeq(Tail(s))

Range(s) == {s[n] : n \in DOMAIN s}

NoRepeat(s) == \A a, b \in DOMAIN s : a # b => s[a] # s[b]

(***************************************************************************)
(* Data: position samples and event rows.                                  *)
(***************************************************************************)
Times == 0..MaxTime

Sample(t, name, pos) == [Timestamp |-> t, Name |-> name, Pos |-> pos]

\* transform logs read by extract_config_segments: only Timestamp is read
SampleAt(t) == Sample(t, "R_ThumbTip", <<0, 0, 0>>)

Recordings == SeqsUpTo({SampleAt(t) : t \in Times}, MaxLen)

\* one sample per tick, 0..MaxTime
FullRecording == [n \in 1..(MaxTime + 1) |-> SampleAt(n - 1)]

EventNames == {"config0", "config1", "Calibration"}

\* event_df['Name'].str.match(r'config\d+')
IsConfigName(name) == name \in {"config0", "config1"}

\* a trial ends no earlier than it starts
EventRows == {r \in [Name : EventNames, StartTime : Times, EndTime : Times] :
                 r.StartTime <= r.EndTime}

Timelines(maxRows) == SeqsUpTo(EventRows, maxRows)

\* file names of transform logs, with the trial id each one ends in
TransformFiles == {"User0_TransformLog_BigCube_Grasp_config0.csv",
                   "User0_TransformLog_Ball_Grasp_config0.csv",
                   "User0_TransformLog_BigCube_Grasp_config1.csv"}

TrialIdOf(f) == IF f = "User0_TransformLog_BigCube_Grasp_config1.csv"
                THEN "config1" ELSE "config0"

\* os.listdir(user_folder) restricted to transform logs, in listing order
Listings == {l \in SeqsUpTo(TransformFiles, MaxFiles) : NoRepeat(l)}

SingleListings == {<<>>} \cup {<<f>> : f \in TransformFiles}

\* a user folder: whether it exists, whether it holds an EventLogFile, the
\* rows of that file, the listing of its transform logs and their rows
FoldersWith(timelines, listings, recordings) ==
    UNION {[is_dir : {TRUE}, has_event : {TRUE}, event : timelines,
            listing : {l}, read : [Range(l) -> recordings]]
           \cup [is_dir : {TRUE}, has_event : {FALSE}, event : {<<>>},
                 listing : {l}, read : [Range(l) -> recordings]]
           : l \in listings}

NoFolder == [is_dir |-> FALSE, has_event |-> FALSE, event |-> <<>>,
             listing |-> <<>>, read |-> <<>>]

\* folders of many trials, each transform log holding the full recording
TrialFolders == FoldersWith(Timelines(MaxRows), Listings, {FullRecording})

\* folders of at most one trial, its transform log holding any recording
CropFolders == FoldersWith(Timelines(1), SingleListings, Recordings)

\* the folders process_all_users finds under base_input_folder
BatchFolders == FoldersWith(Timelines(MaxBatchRows), Listings, {FullRecording})
                \cup {NoFolder}

(***************************************************************************)
(* extract_config_segments, helpers.                                       *)
(***************************************************************************)
\* re.compile(rf".*_{config_name}\.csv").match(f)
MatchesTrial(f, config_name) == TrialIdOf(f) = config_name

\* next((f for f in os.listdir(...) if pattern.match(f)), None)
FirstMatch(listing, config_name) ==
    LET hits == {n \in DOMAIN listing : MatchesTrial(listing[n], config_name)}
    IN  IF hits = {} THEN None
        ELSE listing[CHOOSE n \in hits : \A m \in hits : n <= m]

\* a faulty variant: the end of the window is excluded
InWindowStrictEnd(t, start_time, end_time) == t >= start_time /\ t < end_time

\* the row mask of lines 46-49
InWindow(t, start_time, end_time) == t >= start_time /\ t <= end_time

\* transform_df[mask]
FilterWindow(rows, start_time, end_time) ==
    SelectSeq(rows, LAMBDA s : InWindow(s.Timestamp, start_time, end_time))

\* event_df[event_df['Name'].str.match(r'config\d+')]
ConfigRowsOf(event_df) == SelectSeq(event_df, LAMBDA r : IsConfigName(r.Name))

Warning(config_name) == <<"Warning: Transform log not found", config_name>>
SavedLine(f) == <<"Saved", f>>

(***************************************************************************)
(* extract_config_segments, one action per step.                           *)
(***************************************************************************)
\* lines 15-20: no event log file in the folder
LocateFails ==
    /\ pc = "locate"
    /\ ~user_folder.has_event
    /\ pc' = "raised"
    /\ exc' = "FileNotFoundError"
    /\ UNCHANGED <<i, user_folder, time_buffer, config_rows, k, transform_df,
                   saved, stdout>>
    /\ UNCHANGED featVars

\* lines 15-26: the output folder is made, the event log is read and filtered
Locate ==
    /\ pc = "locate"
    /\ user_folder.has_event
    /\ config_rows' = ConfigRowsOf(user_folder.event)
    /\ k' = 0
    /\ pc' = "rows"
    /\ UNCHANGED <<i, user_folder, time_buffer, transform_df, saved, stdout, exc>>
    /\ UNCHANGED featVars

\* lines 29-40, a faulty variant: a missing transform log ends the loop
SkipMissingBreaks ==
    /\ pc = "rows"
    /\ k < Len(config_rows)
    /\ FirstMatch(user_folder.listing, config_rows[k + 1].Name) = None
    /\ stdout' = Append(stdout, Warning(config_rows[k + 1].Name))
    /\ k' = Len(config_rows)
    /\ UNCHANGED <<i, user_folder, time_buffer, config_rows, transform_df,
                   saved, pc, exc>>
    /\ UNCHANGED featVars

\* lines 29-40: no transform log matches the row's trial id
SkipMissing ==
    /\ pc = "rows"
    /\ k < Len(config_rows)
    /\ FirstMatch(user_folder.listing, config_rows[k + 1].Name) = None
    /\ stdout' = Append(stdout, Warning(config_rows[k + 1].Name))
    /\ k' = k + 1
    /\ UNCHANGED <<i, user_folder, time_buffer, config_rows, transform_df,
                   saved, pc, exc>>
    /\ UNCHANGED featVars

\* lines 29-36 and 42-54: the transform log is read, cropped and saved
CropAndSave ==
    /\ pc = "rows"
    /\ k < Len(config_rows)
    /\ LET row == config_rows[k + 1]
           start_time == row.StartTime
           end_time == row.EndTime + time_buffer
           transform_file == FirstMatch(user_folder.listing, row.Name)
       IN  /\ transform_file # None
           /\ transform_df' = user_folder.read[transform_file]
           /\ saved' = [f \in DOMAIN saved \cup {transform_file} |->
                          IF f = transform_file
                          THEN FilterWindow(transform_df', start_time, end_time)
                          ELSE saved[f]]
           /\ stdout' = Append(stdout, SavedLine(transform_file))
    /\ k' = k + 1
    /\ UNCHANGED <<i, user_folder, time_buffer, config_rows, pc, exc>>
    /\ UNCHANGED featVars

\* line 29: the loop over config_rows is exhausted, the function returns
Return ==
    /\ pc = "rows"
    /\ k = Len(config_rows)
    /\ pc' = "returned"
    /\ UNCHANGED <<i, user_folder, time_buffer, config_rows, k, transform_df,
                   saved, stdout, exc>>
    /\ UNCHANGED featVars

SegNext == LocateFails \/ Locate \/ SkipMissing \/ CropAndSave \/ Return

FeatIdle ==
    /\ df = <<>>
    /\ df0 = <<>>
    /\ aperture_out = NoCall
    /\ aperture_args = NoArgs
    /\ polygons_out = NoCall

SegStart(folders, buffers) ==
    /\ user_folder \in folders
    /\ time_buffer \in buffers
    /\ config_rows = <<>>
    /\ k = 0
    /\ transform_df = <<>>
    /\ saved = <<>>
    /\ stdout = <<>>
    /\ exc = "none"

\* a direct call extract_config_segments(user_folder, output_folder) on a
\* folder of many trials, with the default time_buffer
Init ==
    /\ i = 0
    /\ pc = "locate"
    /\ SegStart(TrialFolders, {DefaultTimeBuffer})
    /\ FeatIdle

Next == SegNext

Spec == Init /\ [][Next]_vars

\* a direct call extract_config_segments(user_folder, output_folder, time_buffer)
\* on a folder of at most one trial, any recording, any time_buffer
InitCrop ==
    /\ i = 0
    /\ pc = "locate"
    /\ SegStart(CropFolders, 0..MaxBuffer)
    /\ FeatIdle

SpecCrop == InitCrop /\ [][Next]_vars

(***************************************************************************)
(* process_all_users.                                                      *)
(***************************************************************************)
\* line 65: range(13) is exhausted
BatchEnd ==
    /\ pc = "batch"
    /\ i = NumUsers
    /\ pc' = "exit"
    /\ UNCHANGED <<i, user_folder, time_buffer, config_rows, k, transform_df,
                   saved, stdout, exc>>
    /\ UNCHANGED featVars

\* lines 66-67: user1 is skipped
SkipInvalid ==
    /\ pc = "batch"
    /\ i < NumUsers
    /\ i = InvalidUser
    /\ i' = i + 1
    /\ UNCHANGED <<user_folder, time_buffer, config_rows, k, transform_df,
                   saved, stdout, pc, exc>>
    /\ UNCHANGED featVars

\* lines 69-74: the user's folder does not exist
FolderMissing ==
    /\ pc = "batch"
    /\ i < NumUsers
    /\ i # InvalidUser
    /\ user_folder' = NoFolder
    /\ stdout' = <<<<"User folder not found", i>>>>
    /\ i' = i + 1
    /\ UNCHANGED <<time_buffer, config_rows, k, transform_df, saved, pc, exc>>
    /\ UNCHANGED featVars

\* lines 69-77: extract_config_segments(user_folder, output_folder) is called
CallSegments ==
    /\ pc = "batch"
    /\ i < NumUsers
    /\ i # InvalidUser
    /\ \E folder \in BatchFolders \ {NoFolder} : user_folder' = folder
    /\ time_buffer' = DefaultTimeBuffer
    /\ config_rows' = <<>>
    /\ k' = 0
    /\ transform_df' = <<>>
    /\ saved' = <<>>
    /\ stdout' = <<<<"Processing", i>>>>
    /\ pc' = "locate"
    /\ UNCHANGED <<i, exc>>
    /\ UNCHANGED featVars

\* line 77, a faulty variant: the call is wrapped in try/except and the loop goes on
NextUserSwallows ==
    /\ pc \in {"returned", "raised"}
    /\ i' = i + 1
    /\ pc' = "batch"
    /\ user_folder' = NoFolder
    /\ config_rows' = <<>>
    /\ k' = 0
    /\ transform_df' = <<>>
    /\ saved' = <<>>
    /\ stdout' = <<>>
    /\ UNCHANGED <<time_buffer, exc>>
    /\ UNCHANGED featVars

\* line 77: extract_config_segments returned, the loop goes on.  The callee's
\* locals are gone, and user_folder and output_folder are assigned anew
\* before their next use.
NextUser ==
    /\ pc = "returned"
    /\ i' = i + 1
    /\ pc' = "batch"
    /\ user_folder' = NoFolder
    /\ config_rows' = <<>>
    /\ k' = 0
    /\ transform_df' = <<>>
    /\ saved' = <<>>
    /\ stdout' = <<>>
    /\ UNCHANGED <<time_buffer, exc>>
    /\ UNCHANGED featVars

InitBatch ==
    /\ i = 0
    /\ pc = "batch"
    /\ user_folder = NoFolder
    /\ time_buffer = DefaultTimeBuffer
    /\ config_rows = <<>>
    /\ k = 0
    /\ transform_df = <<>>
    /\ saved = <<>>
    /\ stdout = <<>>
    /\ exc = "none"
    /\ FeatIdle

NextBatch ==
    \/ BatchEnd \/ SkipInvalid \/ FolderMissing \/ CallSegments \/ NextUser
    \/ LocateFails \/ Locate \/ SkipMissing \/ CropAndSave \/ Return

SpecBatch == InitBatch /\ [][NextBatch]_vars

(***************************************************************************)
(* featureExtraction.py: data.                                             *)
(***************************************************************************)
\* polygons["tip"], polygons["intermediate"], in the dict's order
TipJoints == <<"R_ThumbTip", "R_IndexTip", "R_MiddleTip", "R_RingTip",
               "R_LittleTip">>
IntermediateJoints == <<"R_ThumbDistal", "R_IndexIntermediate",
                        "R_MiddleIntermediate", "R_RingIntermediate",
                        "R_LittleIntermediate">>
polygons == <<[name |-> "tip", joints |-> TipJoints],
              [name |-> "intermediate", joints |-> IntermediateJoints]>>

AllJoints == TipJoints \o IntermediateJoints

\* str.strip() on the joint names the recordings use
Strip(name) == IF name = "R_ThumbTip " THEN "R_ThumbTip" ELSE name

\* the name joint number j is logged under; padded: with trailing whitespace
LoggedName(j, padded) ==
    IF padded /\ AllJoints[j] = "R_ThumbTip" THEN "R_ThumbTip " ELSE AllJoints[j]

\* the position of joint number j in the frame taken at tick t
PosOf(j, t) == <<j * j + t, (t + 1) * j, t * t - j>>

\* the joints a block of samples may lack: none, the thumb tip, the index
\* tip, the thumb distal, the whole tip group, the whole intermediate group
MissingSets == {{}, {1}, {2}, {6}, 1..5, 6..10}

Blocks == [t : 0..MaxStamp, missing : MissingSets, padded : BOOLEAN]

\* the samples of one block: its joints in logging order, at one timestamp
RECURSIVE BlockSamples(_, _)
BlockSamples(b, j) ==
    IF j > Len(AllJoints) THEN <<>>
    ELSE (IF j \in b.missing THEN <<>>
          ELSE <<Sample(b.t, LoggedName(j, b.padded), PosOf(j, b.t))>>)
         \o BlockSamples(b, j + 1)

RECURSIVE Concat(_)
Concat(ss) == IF ss = <<>> THEN <<>> ELSE Head(ss) \o Concat(Tail(ss))

\* cropped streams: up to MaxBlocks blocks, in any order of timestamps
Streams == {Concat([n \in DOMAIN bs |-> BlockSamples(bs[n], 1)]) :
               bs \in SeqsUpTo(Blocks, MaxBlocks)}

(***************************************************************************)
(* extract_grasp_aperture.                                                 *)
(***************************************************************************)
Sub(p, q) == <<p[1] - q[1], p[2] - q[2], p[3] - q[3]>>

\* np.linalg.norm(v) is the square root of NormSq(v)
NormSq(v) == v[1] * v[1] + v[2] * v[2] + v[3] * v[3]

\* df[df["Name"] == joint][...].reset_index(drop=True)
JointRows(d, joint) == SelectSeq(d, LAMBDA s : s.Name = joint)

\* positions1 - positions2 under numpy broadcasting of (n1,3) and (n2,3):
\* the row-wise differences, or None when the shapes do not broadcast
BroadcastSub(p1, p2) ==
    IF Len(p1) = Len(p2) THEN Table([n \in DOMAIN p1 |-> Sub(p1[n], p2[n])])
    ELSE IF Len(p2) = 1 THEN Table([n \in DOMAIN p1 |-> Sub(p1[n], p2[1])])
    ELSE IF Len(p1) = 1 THEN Table([n \in DOMAIN p2 |-> Sub(p1[1], p2[n])])
    ELSE Raised("ValueError")

\* pd.DataFrame({"Timestamp": timestamps, "Aperture": apertures})
ApertureFrame(timestamps, apertures) ==
    IF Len(timestamps) # Len(apertures) THEN Raised("ValueError")
    ELSE Table([n \in DOMAIN timestamps |->
                  [Timestamp |-> timestamps[n], ApertureSq |-> apertures[n]]])

\* a faulty variant: the longer joint sequence is cut to the shorter one's length
extract_grasp_aperture_truncating(d, joint1, joint2) ==
    LET joint1_df == JointRows(d, joint1)
        joint2_df == JointRows(d, joint2)
        n == IF Len(joint1_df) <= Len(joint2_df) THEN Len(joint1_df)
             ELSE Len(joint2_df)
    IN  Table([m \in 1..n |->
                 [Timestamp |-> joint1_df[m].Timestamp,
                  ApertureSq |-> NormSq(Sub(joint1_df[m].Pos, joint2_df[m].Pos))]])

extract_grasp_aperture(d, joint1, joint2) ==
    LET joint1_df == JointRows(d, joint1)
        joint2_df == JointRows(d, joint2)
        timestamps == [n \in DOMAIN joint1_df |-> joint1_df[n].Timestamp]
        positions1 == [n \in DOMAIN joint1_df |-> joint1_df[n].Pos]
        positions2 == [n \in DOMAIN joint2_df |-> joint2_df[n].Pos]
        diff == BroadcastSub(positions1, positions2)
    IN  IF diff.status # "ok" THEN diff
        ELSE ApertureFrame(timestamps,
                           [n \in DOMAIN diff.rows |-> NormSq(diff.rows[n])])

(***************************************************************************)
(* extract_grasp_polygons_over_time.                                       *)
(***************************************************************************)
\* df["Name"] = df["Name"].str.strip()
StripNames(d) == [n \in DOMAIN d |-> [d[n] EXCEPT !.Name = Strip(d[n].Name)]]

\* the keys of df.groupby("Timestamp"), without sorting: first-seen order
RECURSIVE FirstSeen(_, _)
FirstSeen(d, seen) ==
    IF d = <<>> THEN <<>>
    ELSE IF Head(d).Timestamp \in seen THEN FirstSeen(Tail(d), seen)
    ELSE <<Head(d).Timestamp>> \o FirstSeen(Tail(d), seen \cup {Head(d).Timestamp})

RECURSIVE Ascending(_)
Ascending(S) ==
    IF S = {} THEN <<>>
    ELSE LET lo == CHOOSE x \in S : \A y \in S : x <= y
         IN  <<lo>> \o Ascending(S \ {lo})

\* a faulty variant: groupby(..., sort=False)
GroupKeysUnsorted(d) == FirstSeen(d, {})

\* the keys of df.groupby("Timestamp"): the distinct timestamps, sorted
GroupKeys(d) == Ascending({d[n].Timestamp : n \in DOMAIN d})

\* the group of one key: the rows with that timestamp
FrameOf(d, t) == SelectSeq(d, LAMBDA s : s.Timestamp = t)

\* joint in frame.index
InFrame(frame, joint) == \E n \in DOMAIN frame : frame[n].Name = joint

\* frame.loc[joint]: the rows of the frame under that name
Loc(frame, joint) == SelectSeq(frame, LAMBDA s : s.Name = joint)

\* lines 109-115: the number of joints looked up before the first missing one
RECURSIVE Found(_, _, _)
Found(frame, joints, n) ==
    IF n > Len(joints) \/ ~InFrame(frame, joints[n]) THEN n - 1
    ELSE Found(frame, joints, n + 1)

\* a faulty variant: the polygon is not closed
EdgesOpen(points) ==
    [n \in 1..Len(points) |->
        IF n < Len(points) THEN Sub(points[n + 1], points[n]) ELSE <<0, 0, 0>>]

\* lines 120-123: close the polygon, take consecutive differences
Edges(points) ==
    LET closed == points \o <<points[1]>>
    IN  [n \in 1..(Len(closed) - 1) |-> Sub(closed[n + 1], closed[n])]

Axes == <<"x", "y", "z">>

\* lines 125-128: the columns one group adds to feature_row; edges 0-based
EdgeColumns(poly_name, edges) ==
    [c \in {<<poly_name, n - 1, Axes[a]>> : n \in DOMAIN edges, a \in 1..3} |->
        LET a == CHOOSE a \in 1..3 : Axes[a] = c[3] IN edges[c[2] + 1][a]]

Merge(f, g) ==
    [c \in DOMAIN f \cup DOMAIN g |-> IF c \in DOMAIN g THEN g[c] ELSE f[c]]

NoColumns == [c \in {} |-> 0]

\* a faulty variant: an incomplete group is passed over, later groups still emit
RECURSIVE GroupLoopPerGroup(_, _, _)
GroupLoopPerGroup(frame, g, cols) ==
    IF g > Len(polygons) THEN Table(cols)
    ELSE LET joints == polygons[g].joints
         IN  IF Found(frame, joints, 1) < Len(joints)
             THEN GroupLoopPerGroup(frame, g + 1, cols)
             ELSE IF \E n \in DOMAIN joints : Len(Loc(frame, joints[n])) > 1
             THEN Raised("ValueError")
             ELSE GroupLoopPerGroup(frame, g + 1,
                     Merge(cols, EdgeColumns(polygons[g].name,
                              Edges([n \in DOMAIN joints |->
                                        Loc(frame, joints[n])[1].Pos]))))

\* lines 108-128 from group number g on: the feature columns collected, or a
\* ValueError from np.array/np.vstack when a joint of a complete group has
\* more than one row in the frame
RECURSIVE GroupLoop(_, _, _)
GroupLoop(frame, g, cols) ==
    IF g > Len(polygons) THEN Table(cols)
    ELSE LET joints == polygons[g].joints
         IN  IF Found(frame, joints, 1) < Len(joints) THEN Table(cols)
             ELSE IF \E n \in DOMAIN joints : Len(Loc(frame, joints[n])) > 1
             THEN Raised("ValueError")
             ELSE GroupLoop(frame, g + 1,
                     Merge(cols, EdgeColumns(polygons[g].name,
                              Edges([n \in DOMAIN joints |->
                                        Loc(frame, joints[n])[1].Pos]))))

\* lines 104-128 for one frame
FeatureRow(frame) == GroupLoop(frame, 1, NoColumns)

\* lines 103-131 from key number n on
RECURSIVE FrameLoop(_, _, _, _)
FrameLoop(d, keys, n, features_per_frame) ==
    IF n > Len(keys) THEN Table(features_per_frame)
    ELSE LET feature_row == FeatureRow(FrameOf(d, keys[n]))
         IN  IF feature_row.status # "ok" THEN feature_row
             ELSE FrameLoop(d, keys, n + 1,
                     IF DOMAIN feature_row.rows # {}
                     THEN Append(features_per_frame,
                                 [Timestamp |-> keys[n], cols |-> feature_row.rows])
                     ELSE features_per_frame)

\* the table returned for a stream whose names are already stripped
PolygonsOf(d) == FrameLoop(d, GroupKeys(d), 1, <<>>)

(***************************************************************************)
(* Calls of the extractors on one cropped stream.                          *)
(***************************************************************************)
\* joint1: str = "R_ThumbTip", joint2: str = "R_IndexTip"
AperturePairs == {<<"R_ThumbTip", "R_IndexTip">>}

\* aperture_df = extract_grasp_aperture(df, joint1, joint2)
CallAperture(joint1, joint2) ==
    /\ aperture_out' = extract_grasp_aperture(df, joint1, joint2)
    /\ aperture_args' = [df |-> df, joint1 |-> joint1, joint2 |-> joint2]
    /\ UNCHANGED <<df, df0, polygons_out>>
    /\ UNCHANGED segVars

\* extract_grasp_polygons_over_time(df): line 88 assigns the stripped names
\* into the caller's frame
CallPolygons ==
    /\ df' = StripNames(df)
    /\ polygons_out' = PolygonsOf(df')
    /\ UNCHANGED <<df0, aperture_out, aperture_args>>
    /\ UNCHANGED segVars

SegIdle ==
    /\ i = 0
    /\ pc = "features"
    /\ user_folder = NoFolder
    /\ time_buffer = DefaultTimeBuffer
    /\ config_rows = <<>>
    /\ k = 0
    /\ transform_df = <<>>
    /\ saved = <<>>
    /\ stdout = <<>>
    /\ exc = "none"

InitFeat ==
    /\ df \in Streams
    /\ df0 = df
    /\ aperture_out = NoCall
    /\ aperture_args = NoArgs
    /\ polygons_out = NoCall
    /\ SegIdle

NextFeat ==
    \/ \E pair \in AperturePairs : CallAperture(pair[1], pair[2])
    \/ CallPolygons

SpecFeat == InitFeat /\ [][NextFeat]_vars

(***************************************************************************)
(* Claims about preprocessing.py.                                          *)
(***************************************************************************)
\* the transform log matched by config row j, or None
FileOfRow(j) == FirstMatch(user_folder.listing, config_rows[j].Name)

\* row j is the last row processed so far that wrote its file
LastWriter(j) ==
    /\ j \in 1..k
    /\ FileOfRow(j) # None
    /\ \A j2 \in (j + 1)..k : FileOfRow(j2) # FileOfRow(j)

\* out holds exactly the rows of in with lo <= Timestamp <= hi, in order
ExactlyWindow(out, in, lo, hi) ==
    LET keep == {n \in DOMAIN in : lo <= in[n].Timestamp /\ in[n].Timestamp <= hi}
        nth(m) == CHOOSE n \in keep : Cardinality({x \in keep : x <= n}) = m
    IN  /\ Len(out) = Cardinality(keep)
        /\ \A m \in 1..Len(out) : out[m] = in[nth(m)]

\* C1: for every trial row with a matching position file and every time
\* buffer, the cropped stream written holds exactly the samples with
\* StartTime <= Timestamp <= EndTime + buffer, in their original order.
C1_CropExactlyWindow ==
    \A j \in 1..k :
        LastWriter(j) =>
            /\ FileOfRow(j) \in DOMAIN saved
            /\ ExactlyWindow(saved[FileOfRow(j)], user_folder.read[FileOfRow(j)],
                             config_rows[j].StartTime,
                             config_rows[j].EndTime + time_buffer)

\* C1 witness: a crop with a positive buffer that kept a sample at exactly
\* StartTime and one at exactly EndTime + buffer and dropped a later one.
C1_Witness ==
    /\ k = 1
    /\ time_buffer > 0
    /\ FileOfRow(1) # None
    /\ Len(transform_df) = 3
    /\ Len(saved[FileOfRow(1)]) = 2
    /\ transform_df[1].Timestamp = config_rows[1].EndTime + time_buffer
    /\ transform_df[2].Timestamp > config_rows[1].EndTime + time_buffer
    /\ transform_df[3].Timestamp = config_rows[1].StartTime
    /\ saved[FileOfRow(1)] = <<transform_df[1], transform_df[3]>>

\* C5: a trial row without a matching position file is skipped with a
\* warning and is not fatal: every row processed so far that has a matching
\* file has its cropped stream written, every row without one has its
\* warning, no exception is raised, and the loop reaches every row.
C5_SkipIsNotFatal ==
    /\ \A j \in 1..k :
          IF FileOfRow(j) = None
          THEN Warning(config_rows[j].Name) \in Range(stdout)
          ELSE FileOfRow(j) \in DOMAIN saved
    /\ user_folder.has_event => exc = "none"
    /\ pc = "returned" => k = Len(config_rows)
    /\ Len(stdout) = k

\* C5 witness: the call returned after skipping the first trial row and
\* saving the second.
C5_Witness ==
    /\ pc = "returned"
    /\ Len(config_rows) = 2
    /\ FileOfRow(1) = None
    /\ FileOfRow(2) # None
    /\ FileOfRow(2) \in DOMAIN saved
    /\ stdout = <<Warning(config_rows[1].Name), SavedLine(FileOfRow(2))>>

\* C6: with no event timeline file in the subject's folder,
\* extract_config_segments raises before any trial is processed, nothing is
\* saved for that subject, and the exception ends process_all_users.
C6_MissingEventLogIsFatal ==
    /\ (user_folder.is_dir /\ ~user_folder.has_event) =>
          /\ pc \in {"locate", "raised"}
          /\ saved = <<>>
          /\ k = 0
    /\ pc = "raised" =>
          /\ exc = "FileNotFoundError"
          /\ ~user_folder.has_event
          /\ ~ENABLED NextBatch
    /\ exc # "none" => pc = "raised"

\* C6 witness: the batch stopped on the exception at a subject after the
\* first ones were processed.
C6_Witness ==
    /\ pc = "raised"
    /\ exc = "FileNotFoundError"
    /\ i = 2
    /\ saved = <<>>


(***************************************************************************)
(* Claims about featureExtraction.py.                                      *)
(***************************************************************************)
Stamps(d) == {d[n].Timestamp : n \in DOMAIN d}

\* every joint of group number g has a sample at timestamp t of stream d
GroupComplete(d, t, g) ==
    \A n \in DOMAIN polygons[g].joints :
        \E m \in DOMAIN d : d[m].Timestamp = t /\ d[m].Name = polygons[g].joints[n]

RowsAt(t) == {n \in DOMAIN polygons_out.rows : polygons_out.rows[n].Timestamp = t}

ColumnsOfGroup(row, g) == {c \in DOMAIN row.cols : c[1] = polygons[g].name}

\* C2: a feature row is emitted for a timestamp only if every joint of every
\* configured group has a sample at that timestamp, and it then holds the
\* columns of every group: no partial set of columns.
C2_RowsOnlyForCompleteFrames ==
    polygons_out.status = "ok" =>
        \A n \in DOMAIN polygons_out.rows :
            \A g \in DOMAIN polygons :
                /\ GroupComplete(df, polygons_out.rows[n].Timestamp, g)
                /\ ColumnsOfGroup(polygons_out.rows[n], g) # {}

\* C3: a timestamp at which a joint of the first-checked group ("tip") is
\* missing contributes no row, whatever joints of the later group it has.
C3_TipIncompleteNoRow ==
    polygons_out.status = "ok" =>
        \A t \in Stamps(df) : ~GroupComplete(df, t, 1) => RowsAt(t) = {}

\* C3 witness: a returned table without a row for a timestamp whose tip
\* group lacks a joint while its intermediate group is complete, next to a
\* row for another timestamp.
C3_Witness ==
    /\ polygons_out.status = "ok"
    /\ Len(polygons_out.rows) = 1
    /\ \E t \in Stamps(df) :
          /\ ~GroupComplete(df, t, 1)
          /\ GroupComplete(df, t, 2)
          /\ RowsAt(t) = {}

ApertureA == JointRows(aperture_args.df, aperture_args.joint1)
ApertureB == JointRows(aperture_args.df, aperture_args.joint2)

\* row n of the aperture table pairs jointA sample n with jointB sample m
PairsWith(n, m) ==
    /\ aperture_out.rows[n].Timestamp = ApertureA[n].Timestamp
    /\ aperture_out.rows[n].ApertureSq =
          (ApertureA[n].Pos[1] - ApertureB[m].Pos[1]) * (ApertureA[n].Pos[1] - ApertureB[m].Pos[1])
        + (ApertureA[n].Pos[2] - ApertureB[m].Pos[2]) * (ApertureA[n].Pos[2] - ApertureB[m].Pos[2])
        + (ApertureA[n].Pos[3] - ApertureB[m].Pos[3]) * (ApertureA[n].Pos[3] - ApertureB[m].Pos[3])

Min(a, b) == IF a <= b THEN a ELSE b

\* C4 as stated: the output has exactly min(nA, nB) rows, row n pairing the
\* n-th jointA sample with the n-th jointB sample.
C4_TruncatesToShorter ==
    aperture_out.status # "nocall" =>
        /\ aperture_out.status = "ok"
        /\ Len(aperture_out.rows) = Min(Len(ApertureA), Len(ApertureB))
        /\ \A n \in DOMAIN aperture_out.rows : PairsWith(n, n)

\* C4 amended: with nA = nB the output has exactly nA rows, row n holding
\* the timestamp of the n-th jointA sample and the distance between the n-th
\* jointA and the n-th jointB position, whatever the n-th jointB timestamp.
\* With nA # nB nothing is truncated: the call raises ValueError, unless
\* nB = 1, where the single jointB sample is paired with each of the nA
\* jointA samples.
C4_PairsByPositionEqualCounts ==
    aperture_out.status # "nocall" =>
        IF Len(ApertureA) = Len(ApertureB)
        THEN /\ aperture_out.status = "ok"
             /\ Len(aperture_out.rows) = Len(ApertureA)
             /\ \A n \in DOMAIN aperture_out.rows : PairsWith(n, n)
        ELSE IF Len(ApertureB) = 1
        THEN /\ aperture_out.status = "ok"
             /\ Len(aperture_out.rows) = Len(ApertureA)
             /\ \A n \in DOMAIN aperture_out.rows : PairsWith(n, 1)
        ELSE aperture_out.status = "ValueError"

\* C4 witness: a returned one-row table pairing a jointA sample with a
\* jointB sample of another timestamp.
C4_Witness ==
    /\ aperture_out.status = "ok"
    /\ Len(ApertureA) = 1
    /\ Len(ApertureB) = 1
    /\ Len(aperture_out.rows) = 1
    /\ ApertureA[1].Timestamp # ApertureB[1].Timestamp
    /\ aperture_out.rows[1].ApertureSq > 0

\* C7: the extractors leave the stream as it was handed to them, and what
\* an extraction returns is what it returns on the stream as handed over.
C7_StreamUnchanged ==
    /\ df = df0
    /\ aperture_out.status # "nocall" =>
          aperture_out = extract_grasp_aperture(df0, aperture_args.joint1,
                                                aperture_args.joint2)

\* a timestamp of the stream that has no row with the columns of every group
Dropped(t) ==
    \A n \in RowsAt(t) :
        \E g \in DOMAIN polygons : ColumnsOfGroup(polygons_out.rows[n], g) = {}

\* C8: every timestamp dropped, wholly or for a group, by
\* extract_grasp_polygons_over_time comes with a printed diagnostic.
C8_DropsAreReported ==
    (polygons_out.status = "ok" /\ \E t \in Stamps(df) : Dropped(t))
        => stdout # <<>>

\* the position logged for a joint at timestamp t
PointAt(t, joint) ==
    (CHOOSE s \in Range(df) : s.Timestamp = t /\ s.Name = joint).Pos

\* the row of timestamp t holds, for group number g of size kk, exactly the
\* edges point[(e+1) mod kk] - point[e], e in 0..kk-1, and they sum to zero
EdgesEmitted(t, g) ==
    LET joints == polygons[g].joints
        kk == Len(joints)
        name == polygons[g].name
    IN  \E n \in RowsAt(t) :
          LET row == polygons_out.rows[n]
          IN  /\ ColumnsOfGroup(row, g) =
                    {<<name, e, Axes[a]>> : e \in 0..(kk - 1), a \in 1..3}
              /\ \A e \in 0..(kk - 1), a \in 1..3 :
                    row.cols[<<name, e, Axes[a]>>] =
                        PointAt(t, joints[((e + 1) % kk) + 1])[a]
                        - PointAt(t, joints[e + 1])[a]
              /\ \A a \in 1..3 :
                    SumSeq([e \in 1..kk |-> row.cols[<<name, e - 1, Axes[a]>>]]) = 0

\* C9 as stated: every group complete at a timestamp yields its kk edges.
C9_EveryCompleteGroupEmits ==
    polygons_out.status = "ok" =>
        \A t \in Stamps(df), g \in DOMAIN polygons :
            GroupComplete(df, t, g) => EdgesEmitted(t, g)

\* C9 amended: every group that is complete at a timestamp, every group
\* declared before it being complete there too, yields exactly kk edge
\* vectors in the row of that timestamp, edge e being point[(e+1) mod kk]
\* minus point[e], as components {group}_edge{e}_{x|y|z}, e in 0..kk-1, and
\* the edge vectors of the group sum to the zero vector.
C9_ReachedCompleteGroupEmits ==
    polygons_out.status = "ok" =>
        \A t \in Stamps(df), g \in DOMAIN polygons :
            (\A g2 \in 1..g : GroupComplete(df, t, g2)) => EdgesEmitted(t, g)

\* C9 witness: a returned table with a row holding the fifteen components
\* of each of the two groups.
C9_Witness ==
    /\ polygons_out.status = "ok"
    /\ \E n \in DOMAIN polygons_out.rows :
          /\ Cardinality(ColumnsOfGroup(polygons_out.rows[n], 1)) = 15
          /\ Cardinality(ColumnsOfGroup(polygons_out.rows[n], 2)) = 15

SwapAt(d, n) ==
    [m \in DOMAIN d |-> IF m = n THEN d[n + 1] ELSE IF m = n + 1 THEN d[n] ELSE d[m]]

Reverse(d) == [m \in DOMAIN d |-> d[Len(d) + 1 - m]]

\* C10: the rows come in strictly ascending timestamp order, hence at most
\* one per distinct timestamp, and the table is the same for the stream with
\* any two adjacent samples exchanged and for the reversed stream.
C10_SortedAndOrderIndependent ==
    polygons_out.status # "nocall" =>
        /\ \A n \in 1..(Len(polygons_out.rows) - 1) :
              polygons_out.rows[n].Timestamp < polygons_out.rows[n + 1].Timestamp
        /\ \A n \in 1..(Len(df) - 1) : PolygonsOf(SwapAt(df, n)) = polygons_out
        /\ PolygonsOf(Reverse(df)) = polygons_out

\* C10 witness: two rows returned in ascending order for a stream whose
\* samples come in descending timestamp order.
C10_Witness ==
    /\ polygons_out.status = "ok"
    /\ Len(polygons_out.rows) = 2
    /\ df[1].Timestamp > df[Len(df)].Timestamp

=============================================================================
